---------------------------- MODULE Spec2Model ----------------------------
(***************************************************************************)
(* A model of my-vault: the session controller (js/app.js), the sync       *)
(* orchestrator over localStorage (js/storage.js), the GitHub client       *)
(* (js/github.js), the envelope codec (crypto.js) and the handlers of      *)
(* js/ui.js that drive them.                                               *)
(*                                                                         *)
(* Every async function is cut at its awaits: one action runs the code     *)
(* from one suspension point to the next.  A task slot holds the locals    *)
(* of one handler in flight.  Under Spec the handlers are serialised (the  *)
(* UI issues one operation at a time and an operation ends long before     *)
(* the five-minute lock timer expires).                                    *)
(*                                                                         *)
(* Of the vault mutators, createTable, deleteTable and addRow are          *)
(* modelled; the others reach persistVault in the same way.                *)
(***************************************************************************)
EXTENDS Integers, Sequences, FiniteSets, TLC

(* ------------------------------ bounds -------------------------------- *)

\* rows a table may grow to
MaxRows == 1
\* columns a table may grow to
MaxCols == 2
MaxText == 2

\* crypto.getRandomValues: the salts a run can draw; two tell a re-encryption
\* from the envelope it replaces
Salts == {"s1", "s2"}
\* the ivs a run can draw
IVs == {"iv1"}
Passwords == {"hunter2duck", "correcthorse"}
TableNames == {"Logins"}
TaskIds == {1, 2}

(* ------------------------------ values -------------------------------- *)

\* JS null / undefined, and a present value
Null == <<>>
Some(x) == <<x>>

(* ------------------------- crypto.js (Crypto) ------------------------- *)

\* passwords that hold an unpaired surrogate: a lone high one, a lone low one
SurrogatePasswords == {"pass<D83D>word", "pass<DE00>word"}

\* enc.encode(password): the UTF-8 bytes; an unpaired surrogate is encoded as
\* U+FFFD, every other password keeps its own bytes
passwordBytes(password) ==
    IF password \in SurrogatePasswords THEN "pass<FFFD>word" ELSE password

\* PBKDF2 over the password's bytes and the salt, taken injective in both
deriveKey(password, salt) == <<passwordBytes(password), salt>>

\* btoa(String.fromCharCode(...bytes)) and its inverse: base64 text of bytes
b64encode(buf) == <<"b64", buf>>
b64decode(str) == str[2]

\* Strings are sequences of UTF-16 code units: a letter, U+FEFF, a high and
\* a low surrogate (U+FFFD comes out of decoding only); the text of
\* JSON.stringify is kept structured and holds none of the last three bare
CodeUnits == {"a", "FEFF", "HI", "LO"}
IsJSONText(s) == s # <<>> /\ s[1] = "vault"

RECURSIVE encodeUnits(_)
\* TextEncoder.encode on code units: a surrogate pair is one scalar value, a
\* lone surrogate becomes U+FFFD
encodeUnits(s) ==
    IF s = <<>> THEN <<>>
    ELSE IF s[1] = "HI" /\ Len(s) >= 2 /\ s[2] = "LO"
         THEN <<"U+1F600">> \o encodeUnits(SubSeq(s, 3, Len(s)))
    ELSE IF s[1] \in {"HI", "LO"} THEN <<"U+FFFD">> \o encodeUnits(Tail(s))
    ELSE IF s[1] = "FEFF" THEN <<"U+FEFF">> \o encodeUnits(Tail(s))
    ELSE IF s[1] = "FFFD" THEN <<"U+FFFD">> \o encodeUnits(Tail(s))
    ELSE <<"U+0061">> \o encodeUnits(Tail(s))

RECURSIVE decodeScalars(_)
\* UTF-8 decoding of scalar values back to code units
decodeScalars(b) ==
    IF b = <<>> THEN <<>>
    ELSE (CASE b[1] = "U+1F600" -> <<"HI", "LO">>
            [] b[1] = "U+FFFD" -> <<"FFFD">>
            [] b[1] = "U+FEFF" -> <<"FEFF">>
            [] OTHER -> <<"a">>) \o decodeScalars(Tail(b))

\* new TextEncoder().encode(text): the UTF-8 bytes
TextEncode(s) == IF IsJSONText(s) THEN <<"utf8", s>> ELSE encodeUnits(s)

\* new TextDecoder().decode(bytes): a leading byte order mark is dropped
\* (ignoreBOM is false by default)
TextDecode(b) ==
    IF b # <<>> /\ b[1] = "utf8" THEN b[2]
    ELSE IF b # <<>> /\ b[1] = "U+FEFF" THEN decodeScalars(Tail(b))
    ELSE decodeScalars(b)

\* AES-GCM seal: the ciphertext binds the key, the iv and the plaintext bytes
encrypt(plaintext, password, salt, iv) ==
    [salt |-> b64encode(salt), iv |-> b64encode(iv),
     ciphertext |-> b64encode([key |-> deriveKey(password, salt), iv |-> iv,
                               pt |-> TextEncode(plaintext)])]

\* AES-GCM open: the tag verifies only under the sealing key and iv
decryptOk(payload, password) ==
    LET sealed == b64decode(payload.ciphertext)
    IN /\ sealed.key = deriveKey(password, b64decode(payload.salt))
       /\ sealed.iv = b64decode(payload.iv)

\* the plaintext, when decryptOk; the call throws otherwise
decrypt(payload, password) == TextDecode(b64decode(payload.ciphertext).pt)

\* a verify that swallows the failure and still answers true
verify_AlwaysTrue(payload, password) == TRUE

\* verify: true when decrypt succeeds, false when it throws
verify(payload, password) == decryptOk(payload, password)

(* --------------------------- JSON text forms -------------------------- *)

\* JSON.stringify(state.vault) and JSON.parse of it
JSONstringify(v) ==
    <<"vault", v.version,
      [n \in {m \in DOMAIN v.tables : v.tables[m] # [undefined |-> TRUE]} |-> v.tables[n]]>>
JSONparse(s) == [version |-> s[2], tables |-> s[3]]

\* JSON.stringify(encryptedPayload) and JSON.parse of it
EnvToText(e) == <<"envelope", e.salt, e.iv, e.ciphertext>>
TextToEnv(s) == [salt |-> s[2], iv |-> s[3], ciphertext |-> s[4]]

\* stored text that is not JSON (a truncated write, a foreign value)
MalformedText == <<"malformed">>

\* JSON.parse throws a SyntaxError on text that is not JSON
JSONparseThrows(s) == s[1] = "malformed"

(* ------------------------ storage.js (Storage) ------------------------ *)

\* localStorage: the keys mv_vault, mv_pending and mv_gh_cfg
EmptyStore == [mv_vault |-> Null, mv_pending |-> FALSE, mv_gh_cfg |-> FALSE]

saveLocal(ls, encryptedPayload) ==
    [ls EXCEPT !.mv_vault = Some(EnvToText(encryptedPayload))]

loadLocal(ls) ==
    IF ls.mv_vault = Null THEN Null ELSE Some(TextToEnv(ls.mv_vault[1]))

\* loadLocal's JSON.parse throws on stored text that is not JSON
loadLocalThrows(ls) == ls.mv_vault # Null /\ JSONparseThrows(ls.mv_vault[1])

hasLocal(ls) == ls.mv_vault # Null

markPending(ls) == [ls EXCEPT !.mv_pending = TRUE]

clearPending(ls) == [ls EXCEPT !.mv_pending = FALSE]

hasPending(ls) == ls.mv_pending

(* ------------------------- github.js (GitHub) ------------------------- *)

isConfigured(ls) == ls.mv_gh_cfg

setConfig(ls) == [ls EXCEPT !.mv_gh_cfg = TRUE]

clearConfig(ls) == [ls EXCEPT !.mv_gh_cfg = FALSE]

\* the blob sha GitHub reports for vault.enc: a function of its content
ShaOf(file) == file

\* what pull() returns on a 200 or a 404: JSON.parse(atob(content)), or null
pullResult(file) == IF file = Null THEN Null ELSE Some(TextToEnv(file[1]))

\* the PUT is accepted when the sha sent names the file's current blob
putAccepted(file, sha) == sha = ShaOf(file)

(* ----------------------------- app.js (App) --------------------------- *)

emptyVault == [version |-> 1, tables |-> <<>>]

InitState ==
    [locked |-> TRUE, password |-> Null, vault |-> Null,
     activeTable |-> Null, searchQuery |-> "", pendingSync |-> FALSE]

\* a lock() that leaves the search query and the timer as they are
lock_Partial(a) ==
    [state |-> [a.state EXCEPT !.locked = TRUE, !.password = Null, !.vault = Null,
                               !.activeTable = Null],
     lockTimer |-> a.lockTimer]

\* lock(), on the session state and the timer: the wipe and clearTimeout
lock(a) ==
    [state |-> [a.state EXCEPT !.locked = TRUE, !.password = Null, !.vault = Null,
                               !.activeTable = Null, !.searchQuery = ""],
     lockTimer |-> FALSE]

\* a resetLockTimer() without its test of state.locked
resetLockTimer_NoGuard(s, timer) == TRUE

\* a resetLockTimer() that schedules nothing
resetLockTimer_Never(s, timer) == timer

\* resetLockTimer(): the timer after the call
resetLockTimer(s, timer) == IF s.locked THEN timer ELSE TRUE


\* String.prototype.trim on the names the model enters
Trim(s) == IF s = " Logins " THEN "Logins" ELSE s

TableNameInputs == TableNames \cup {"", " Logins "}

newTable == [columns |-> <<"Column 1">>, rows |-> <<>>]

\* what a key of vault.tables holds after `tables[k] = undefined`
UndefinedTable == [undefined |-> TRUE]

\* `state.vault.tables[name]` taken as a condition: the key holds a table
hasTable(v, name) == name \in DOMAIN v.tables /\ v.tables[name] # UndefinedTable

putTable(v, name, tbl) ==
    [v EXCEPT !.tables =
        [n \in (DOMAIN v.tables) \cup {name} |-> IF n = name THEN tbl ELSE v.tables[n]]]

dropTable(v, name) ==
    [v EXCEPT !.tables = [n \in (DOMAIN v.tables) \ {name} |-> v.tables[n]]]

\* new Array(tbl.columns.length).fill('')
blankRow(tbl) == [i \in 1..Len(tbl.columns) |-> ""]

\* addColumn's default name: `Column ${tbl.columns.length + 1}`
defaultColName(n) ==
    CASE n = 1 -> "Column 1" [] n = 2 -> "Column 2" [] n = 3 -> "Column 3"
      [] OTHER -> "Column n"

\* an addColumn that leaves the rows as they are
extendRows_None(rows) == rows

\* addColumn: tbl.rows.forEach(row => row.push(''))
extendRows(rows) == [i \in 1..Len(rows) |-> Append(rows[i], "")]

\* Array.prototype.splice(index, 1): where it starts, counted from 0
spliceStart(len, index) ==
    IF index < 0 THEN (IF len + index < 0 THEN 0 ELSE len + index)
    ELSE (IF index > len THEN len ELSE index)

\* Array.prototype.splice(index, 1): the array afterwards
splice1(seq, index) ==
    LET start == spliceStart(Len(seq), index)
    IN IF start >= Len(seq) THEN seq
       ELSE [i \in 1..(Len(seq) - 1) |-> IF i <= start THEN seq[i] ELSE seq[i + 1]]

(* ------------------------------- state -------------------------------- *)

VARIABLES
    state,          \* app.js: the session state object
    lockTimer,      \* app.js: TRUE while the setTimeout(lock) is pending
    localStorage,   \* the browser's localStorage: mv_vault, mv_pending, mv_gh_cfg
    remoteFile,     \* vault.enc in the GitHub repository: Null or Some(text)
    tasks,          \* the handlers in flight: position and locals of each
    snap,           \* history: the vault and password wiped by the last lock()
    offlineSave     \* history: the envelope of the last save, while its push
                    \* failed and no push or pull has succeeded since

vars == <<state, lockTimer, localStorage, remoteFile, tasks, snap, offlineSave>>

\* the session state and the timer, as lock() sees them
app == [state |-> state, lockTimer |-> lockTimer]

IdleTask ==
    [pc |-> "idle", op |-> "none", pw |-> "", newPw |-> "", encPw |-> "",
     payload |-> Null, json |-> Null, enc |-> Null, sha |-> Null,
     remoteReq |-> FALSE, inPersist |-> FALSE, cont |-> "",
     pull |-> "none", push |-> "none", result |-> "", plain |-> Null]

Init ==
    /\ state = InitState
    /\ lockTimer = FALSE
    /\ localStorage = EmptyStore
    /\ remoteFile = Null
    /\ tasks = [t \in TaskIds |-> IdleTask]
    /\ snap = Null
    /\ offlineSave = Null

AllIdle == \A u \in TaskIds : tasks[u].pc = "idle"

\* Serialised use: a handler starts only when none is in flight
Start(t) == t = 1 /\ AllIdle

SetTask(t, tk) == tasks' = [tasks EXCEPT ![t] = tk]

\* a handler returns `res`; its slot keeps what it was called with and saw
Returned(tk, res) ==
    [IdleTask EXCEPT !.pc = "returned", !.op = tk.op, !.pw = tk.pw,
                     !.newPw = tk.newPw, !.payload = tk.payload,
                     !.pull = tk.pull, !.push = tk.push, !.result = res]

(* --------------------------- persistVault ----------------------------- *)

\* persistVault() up to its first await: the guard, JSON.stringify, and the
\* call of Crypto.encrypt with the password it reads now
persistVault(s, tk, cont) ==
    IF s.vault = Null \/ s.password = Null
    THEN [tk EXCEPT !.pc = cont]
    ELSE [tk EXCEPT !.pc = "encrypt_await",
                    !.json = Some(JSONstringify(s.vault[1])),
                    !.encPw = s.password[1],
                    !.inPersist = TRUE, !.cont = cont]

\* Storage.save up to its await: saveLocal, then syncToGitHub's test
saveCall(ls, tk, e) ==
    [tk EXCEPT !.enc = Some(e),
               !.pc = IF isConfigured(ls) THEN "push_getsha" ELSE "save_nopush"]

\* a persistVault that gives the save up when the session was locked meanwhile
EncryptDone_AbortIfLocked(t) ==
    /\ tasks[t].pc = "encrypt_await"
    /\ IF state.locked
       THEN /\ SetTask(t, Returned(tasks[t], "undefined"))
            /\ UNCHANGED localStorage
       ELSE \E salt \in Salts, iv \in IVs :
              LET e == encrypt(tasks[t].json[1], tasks[t].encPw, salt, iv)
                  ls == saveLocal(localStorage, e)
              IN /\ localStorage' = ls
                 /\ SetTask(t, saveCall(ls, tasks[t], e))
    /\ UNCHANGED <<state, lockTimer, remoteFile, snap, offlineSave>>

\* Crypto.encrypt resolves; the caller passes the envelope to Storage.save
EncryptDone(t) ==
    /\ tasks[t].pc = "encrypt_await"
    /\ \E salt \in Salts, iv \in IVs :
         LET e == encrypt(tasks[t].json[1], tasks[t].encPw, salt, iv)
             ls == saveLocal(localStorage, e)
         IN /\ localStorage' = ls
            /\ SetTask(t, saveCall(ls, tasks[t], e))
    /\ UNCHANGED <<state, lockTimer, remoteFile, snap, offlineSave>>

\* syncToGitHub without a remote resolves with nothing: clearPending
SaveNoPush(t) ==
    /\ tasks[t].pc = "save_nopush"
    /\ localStorage' = clearPending(localStorage)
    /\ SetTask(t, [tasks[t] EXCEPT !.pc = "save_returned", !.push = "none"])
    /\ offlineSave' = Null
    /\ UNCHANGED <<state, lockTimer, remoteFile, snap>>

\* a save() whose catch forgets markPending
saveCatch_NoMark(ls) == ls

\* save()'s catch: markPending
saveCatch(ls) == markPending(ls)

\* a save() without the catch: the push's error leaves save, and the handler
afterPushError_Rethrow(tk) == Returned([tk EXCEPT !.push = "fail"], "threw")

\* save()'s try/catch around the push: a push that threw leaves save returning
afterPushError(tk) == [tk EXCEPT !.pc = "save_returned", !.push = "fail"]

\* GitHub.push: getFileSha answers (the sha, or null on 404) or fails
PushGetSha(t) ==
    /\ tasks[t].pc = "push_getsha"
    /\ \/ /\ SetTask(t, [tasks[t] EXCEPT !.pc = "push_put", !.sha = ShaOf(remoteFile)])
          /\ UNCHANGED <<localStorage, offlineSave>>
       \/ /\ localStorage' = saveCatch(localStorage)
          /\ SetTask(t, afterPushError(tasks[t]))
          /\ offlineSave' = tasks[t].enc
    /\ UNCHANGED <<state, lockTimer, remoteFile, snap>>

\* a save() that leaves the flag alone after a push that resolved
saveOk_KeepFlag(ls) == ls

\* save() after a push that resolved: clearPending
saveOk(ls) == clearPending(ls)

\* GitHub.push: the PUT answers (accepted, or refused for a stale sha) or fails
PushPut(t) ==
    /\ tasks[t].pc = "push_put"
    /\ \/ /\ putAccepted(remoteFile, tasks[t].sha)
          /\ remoteFile' = Some(EnvToText(tasks[t].enc[1]))
          /\ localStorage' = saveOk(localStorage)
          /\ SetTask(t, [tasks[t] EXCEPT !.pc = "save_returned", !.push = "ok"])
          /\ offlineSave' = Null
       \/ /\ localStorage' = saveCatch(localStorage)
          /\ SetTask(t, afterPushError(tasks[t]))
          /\ offlineSave' = tasks[t].enc
          /\ UNCHANGED remoteFile
    /\ UNCHANGED <<state, lockTimer, snap>>

\* Storage.save has returned: persistVault's tail, then the caller resumes
SaveReturned(t) ==
    /\ tasks[t].pc = "save_returned"
    /\ state' = IF tasks[t].inPersist
                THEN [state EXCEPT !.pendingSync = hasPending(localStorage)]
                ELSE state
    /\ SetTask(t, [tasks[t] EXCEPT !.pc = tasks[t].cont, !.json = Null, !.enc = Null,
                                   !.sha = Null, !.encPw = "", !.inPersist = FALSE,
                                   !.cont = ""])
    /\ UNCHANGED <<lockTimer, localStorage, remoteFile, snap, offlineSave>>

(* ------------------------------ unlock -------------------------------- *)

\* the login form's submit handler calls App.unlock(pw); unlock calls
\* Storage.load, which awaits syncFromGitHub
UnlockCall(t, pw) ==
    /\ tasks[t].pc = "idle"
    /\ state.locked
    /\ SetTask(t, [IdleTask EXCEPT !.pc = "load_await", !.op = "unlock", !.pw = pw,
                                   !.remoteReq = isConfigured(localStorage)])
    /\ UNCHANGED <<state, lockTimer, localStorage, remoteFile, snap, offlineSave>>

\* a load() that returns the remote envelope without storing it
loadStore_Skip(ls, remote) == ls

\* a load() that takes the remote copy as proof that nothing is pending
loadStore_ClearPending(ls, remote) ==
    IF remote # Null THEN clearPending(saveLocal(ls, remote[1])) ELSE ls

\* Storage.load after syncFromGitHub gave `remote`: what it stores and returns
loadStore(ls, remote) == IF remote # Null THEN saveLocal(ls, remote[1]) ELSE ls
loadReturn(ls, remote) == IF remote # Null THEN remote ELSE loadLocal(ls)

\* a load() that gives up when the pull throws
loadCatch_Absent(ls) == Null

\* Storage.load's catch: the pull threw, fall back to the local copy
loadCatch(ls) == loadLocal(ls)

\* load() is left through loadLocal: its JSON.parse is outside load's try, so
\* a SyntaxError leaves load and unlock; otherwise unlock gets the payload
loadDone(tk, ls, payload) ==
    IF loadLocalThrows(ls) THEN Returned(tk, "threw")
    ELSE [tk EXCEPT !.pc = "unlock_loaded", !.payload = payload]

\* syncFromGitHub settles: no remote, a pull that answers, or a pull that throws
LoadResume(t) ==
    /\ tasks[t].pc = "load_await"
    /\ \/ /\ ~tasks[t].remoteReq
          /\ SetTask(t, loadDone([tasks[t] EXCEPT !.pull = "none"], localStorage,
                                 loadReturn(localStorage, Null)))
          /\ UNCHANGED <<localStorage, offlineSave>>
       \/ /\ tasks[t].remoteReq
          /\ LET remote == pullResult(remoteFile)
             IN /\ localStorage' = loadStore(localStorage, remote)
                /\ SetTask(t, IF remote = Null
                              THEN loadDone([tasks[t] EXCEPT !.pull = "absent"],
                                            localStorage, loadReturn(localStorage, remote))
                              ELSE [tasks[t] EXCEPT
                                       !.pc = "unlock_loaded", !.pull = "ok",
                                       !.payload = loadReturn(localStorage, remote)])
                /\ offlineSave' = Null
       \/ /\ tasks[t].remoteReq
          /\ SetTask(t, loadDone([tasks[t] EXCEPT !.pull = "fail"], localStorage,
                                 loadCatch(localStorage)))
          /\ UNCHANGED <<localStorage, offlineSave>>
    /\ UNCHANGED <<state, lockTimer, remoteFile, snap>>

\* a first run that keeps the given password out of the session
firstRun_NoPassword(s, pw) ==
    [s EXCEPT !.vault = Some(emptyVault), !.locked = FALSE]

\* unlock's first-run branch up to persistVault: the session it sets up
firstRun(s, pw) ==
    [s EXCEPT !.password = Some(pw), !.vault = Some(emptyVault), !.locked = FALSE]

\* unlock after `await Storage.load()`: first run, or Crypto.verify is called
UnlockLoaded(t) ==
    /\ tasks[t].pc = "unlock_loaded"
    /\ IF tasks[t].payload = Null
       THEN /\ state' = firstRun(state, tasks[t].pw)
            /\ SetTask(t, persistVault(state', tasks[t], "unlock_first"))
       ELSE /\ SetTask(t, [tasks[t] EXCEPT !.pc = "unlock_verify"])
            /\ UNCHANGED state
    /\ UNCHANGED <<lockTimer, localStorage, remoteFile, snap, offlineSave>>

\* unlock after `await persistVault()` on the first run
UnlockFirstDone(t) ==
    /\ tasks[t].pc = "unlock_first"
    /\ lockTimer' = resetLockTimer(state, lockTimer)
    /\ SetTask(t, Returned(tasks[t], "ok_first"))
    /\ UNCHANGED <<state, localStorage, remoteFile, snap, offlineSave>>

\* unlock after `await Crypto.verify`: {ok: false}, or Crypto.decrypt is called
UnlockVerified(t) ==
    /\ tasks[t].pc = "unlock_verify"
    /\ IF verify(tasks[t].payload[1], tasks[t].pw)
       THEN SetTask(t, [tasks[t] EXCEPT !.pc = "unlock_decrypt"])
       ELSE SetTask(t, Returned(tasks[t], "wrong"))
    /\ UNCHANGED <<state, lockTimer, localStorage, remoteFile, snap, offlineSave>>

\* unlock's success branch: the session after the three assignments
unlocked(s, json, pw) ==
    [s EXCEPT !.vault = Some(JSONparse(json)), !.password = Some(pw), !.locked = FALSE]

\* unlock after `await Crypto.decrypt`
UnlockDecrypted(t) ==
    /\ tasks[t].pc = "unlock_decrypt"
    /\ state' = unlocked(state, decrypt(tasks[t].payload[1], tasks[t].pw), tasks[t].pw)
    /\ lockTimer' = resetLockTimer(state', lockTimer)
    /\ SetTask(t, Returned(tasks[t], "ok"))
    /\ UNCHANGED <<localStorage, remoteFile, snap, offlineSave>>

\* the caller of a handler that returned goes on; the slot is free again
Return(t) ==
    /\ tasks[t].pc = "returned"
    /\ SetTask(t, IdleTask)
    /\ snap' = IF tasks[t].op = "unlock" /\ tasks[t].result \in {"ok", "ok_first"}
               THEN Null ELSE snap
    /\ UNCHANGED <<state, lockTimer, localStorage, remoteFile, offlineSave>>

(* ------------------------ lock and the timer -------------------------- *)

\* what lock() wipes, remembered for the next unlock
snapOf(s) == IF s.locked THEN snap ELSE Some([vault |-> s.vault[1], password |-> s.password[1]])

\* App.lock(), from the lock button or any caller
Lock ==
    /\ state' = lock(app).state
    /\ lockTimer' = lock(app).lockTimer
    /\ snap' = snapOf(state)
    /\ UNCHANGED <<localStorage, remoteFile, tasks, offlineSave>>

\* the setTimeout(lock, LOCK_TIMEOUT_MS) expires
TimerFire ==
    /\ lockTimer
    /\ state' = lock(app).state
    /\ lockTimer' = lock(app).lockTimer
    /\ snap' = snapOf(state)
    /\ UNCHANGED <<localStorage, remoteFile, tasks, offlineSave>>

\* a touchstart, keydown or click reaches the document listeners
Activity ==
    /\ lockTimer' = resetLockTimer(state, lockTimer)
    /\ UNCHANGED <<state, localStorage, remoteFile, tasks, snap, offlineSave>>

\* showTable(tableName) sets App.activeTable
OpenTable(name) ==
    /\ ~state.locked
    /\ hasTable(state.vault[1], name)
    /\ state' = [state EXCEPT !.activeTable = Some(name)]
    /\ UNCHANGED <<lockTimer, localStorage, remoteFile, tasks, snap, offlineSave>>

SearchInputs == {"", "ali"}

\* the search box sets App.searchQuery
SetSearch(q) ==
    /\ ~state.locked
    /\ state' = [state EXCEPT !.searchQuery = q]
    /\ UNCHANGED <<lockTimer, localStorage, remoteFile, tasks, snap, offlineSave>>

\* "Forgot password? Reset vault" on the login screen: localStorage.clear()
ResetVault ==
    /\ state.locked
    /\ hasLocal(localStorage)
    /\ localStorage' = EmptyStore
    /\ snap' = Null
    /\ offlineSave' = Null
    /\ UNCHANGED <<state, lockTimer, remoteFile, tasks>>

(* --------------------------- vault mutations -------------------------- *)

\* a createTable that does not look for an existing table of that name
nameRejected_EmptyOnly(v, name) == name = ""

\* createTable's and renameTable's test of the trimmed name
nameRejected(v, name) == name = "" \/ hasTable(v, name)

\* createTable(name) up to persistVault: false, or the table is added
CreateTable(t, input) ==
    /\ tasks[t].pc = "idle"
    /\ ~state.locked
    /\ LET name == Trim(input)
           tk == [IdleTask EXCEPT !.op = "createTable"]
       IN IF nameRejected(state.vault[1], name)
          THEN /\ SetTask(t, Returned(tk, "false"))
               /\ UNCHANGED state
          ELSE /\ state' = [state EXCEPT !.vault = Some(putTable(state.vault[1], name, newTable))]
               /\ SetTask(t, persistVault(state', tk, "mutate_done"))
    /\ UNCHANGED <<lockTimer, localStorage, remoteFile, snap, offlineSave>>

\* deleteTable(name), called on a listed table
DeleteTable(t, name) ==
    /\ tasks[t].pc = "idle"
    /\ ~state.locked
    /\ hasTable(state.vault[1], name)
    /\ state' = [state EXCEPT
                    !.vault = Some(dropTable(state.vault[1], name)),
                    !.activeTable = IF state.activeTable = Some(name) THEN Null
                                    ELSE state.activeTable]
    /\ SetTask(t, persistVault(state', [IdleTask EXCEPT !.op = "deleteTable"], "mutate_done"))
    /\ UNCHANGED <<lockTimer, localStorage, remoteFile, snap, offlineSave>>

\* addRow(tableName), from the open table's "+ Add Row"
AddRow(t, name) ==
    /\ tasks[t].pc = "idle"
    /\ ~state.locked
    /\ hasTable(state.vault[1], name)
    /\ LET tbl == state.vault[1].tables[name]
       IN /\ Len(tbl.rows) < MaxRows
          /\ state' = [state EXCEPT !.vault = Some(putTable(state.vault[1], name,
                          [tbl EXCEPT !.rows = Append(tbl.rows, blankRow(tbl))]))]
    /\ SetTask(t, persistVault(state', [IdleTask EXCEPT !.op = "addRow"], "mutate_done"))
    /\ UNCHANGED <<lockTimer, localStorage, remoteFile, snap, offlineSave>>

\* renameTable(oldName, newName) on a listed table, up to persistVault
RenameTable(t, oldName, input) ==
    /\ tasks[t].pc = "idle"
    /\ ~state.locked
    /\ hasTable(state.vault[1], oldName)
    /\ LET newName == Trim(input)
           v == state.vault[1]
           tk == [IdleTask EXCEPT !.op = "renameTable"]
       IN IF newName = oldName \/ nameRejected(v, newName)
          THEN /\ SetTask(t, Returned(tk, "false"))
               /\ UNCHANGED state
          ELSE /\ state' = [state EXCEPT
                      !.vault = Some(dropTable(putTable(v, newName, v.tables[oldName]),
                                               oldName)),
                      !.activeTable = IF state.activeTable = Some(oldName)
                                      THEN Some(newName) ELSE state.activeTable]
               /\ SetTask(t, persistVault(state', tk, "mutate_done"))
    /\ UNCHANGED <<lockTimer, localStorage, remoteFile, snap, offlineSave>>

\* renameTable(oldName, newName) with an oldName the vault has no table for:
\* the same code, where `tables[oldName]` is undefined
RenameMissingTable(t, oldName, input) ==
    /\ tasks[t].pc = "idle"
    /\ ~state.locked
    /\ ~hasTable(state.vault[1], oldName)
    /\ LET newName == Trim(input)
           v == state.vault[1]
           tk == [IdleTask EXCEPT !.op = "renameTable"]
       IN IF newName = oldName \/ nameRejected(v, newName)
          THEN /\ SetTask(t, Returned(tk, "false"))
               /\ UNCHANGED state
          ELSE /\ state' = [state EXCEPT
                      !.vault = Some(dropTable(putTable(v, newName, UndefinedTable),
                                               oldName)),
                      !.activeTable = IF state.activeTable = Some(oldName)
                                      THEN Some(newName) ELSE state.activeTable]
               /\ SetTask(t, persistVault(state', tk, "mutate_done"))
    /\ UNCHANGED <<lockTimer, localStorage, remoteFile, snap, offlineSave>>

\* the column names the model enters; '' asks for the default name
ColNameInputs == {""}

\* addColumn(tableName, colName), up to persistVault
AddColumn(t, name, colName) ==
    /\ tasks[t].pc = "idle"
    /\ ~state.locked
    /\ hasTable(state.vault[1], name)
    /\ LET tbl == state.vault[1].tables[name]
           col == IF colName = "" THEN defaultColName(Len(tbl.columns) + 1) ELSE colName
       IN /\ Len(tbl.columns) < MaxCols
          /\ state' = [state EXCEPT !.vault = Some(putTable(state.vault[1], name,
                          [columns |-> Append(tbl.columns, col),
                           rows |-> extendRows(tbl.rows)]))]
    /\ SetTask(t, persistVault(state', [IdleTask EXCEPT !.op = "addColumn"], "mutate_done"))
    /\ UNCHANGED <<lockTimer, localStorage, remoteFile, snap, offlineSave>>

\* the indices deleteColumn is called with, in and out of range
ColIndexInputs == (-1)..MaxCols

\* deleteColumn(tableName, colIndex): nothing for a one-column table, else
\* the splices, up to persistVault
DeleteColumn(t, name, colIndex) ==
    /\ tasks[t].pc = "idle"
    /\ ~state.locked
    /\ hasTable(state.vault[1], name)
    /\ LET tbl == state.vault[1].tables[name]
           tk == [IdleTask EXCEPT !.op = "deleteColumn"]
       IN IF Len(tbl.columns) <= 1
          THEN /\ SetTask(t, Returned(tk, "undefined"))
               /\ UNCHANGED state
          ELSE /\ state' = [state EXCEPT !.vault = Some(putTable(state.vault[1], name,
                               [columns |-> splice1(tbl.columns, colIndex),
                                rows |-> [i \in 1..Len(tbl.rows) |->
                                             splice1(tbl.rows[i], colIndex)]]))]
               /\ SetTask(t, persistVault(state', tk, "mutate_done"))
    /\ UNCHANGED <<lockTimer, localStorage, remoteFile, snap, offlineSave>>

\* renameColumn(tableName, colIndex, newName) from a column header: the
\* index test, then the name (the old one when the new one trims to '')
RenameColumn(t, name, colIndex, newName) ==
    /\ tasks[t].pc = "idle"
    /\ ~state.locked
    /\ hasTable(state.vault[1], name)
    /\ LET tbl == state.vault[1].tables[name]
           tk == [IdleTask EXCEPT !.op = "renameColumn"]
       IN IF colIndex < 0 \/ colIndex >= Len(tbl.columns)
          THEN /\ SetTask(t, Returned(tk, "undefined"))
               /\ UNCHANGED state
          ELSE /\ state' = [state EXCEPT !.vault = Some(putTable(state.vault[1], name,
                               [tbl EXCEPT !.columns[colIndex + 1] =
                                   IF Trim(newName) = "" THEN @ ELSE Trim(newName)]))]
               /\ SetTask(t, persistVault(state', tk, "mutate_done"))
    /\ UNCHANGED <<lockTimer, localStorage, remoteFile, snap, offlineSave>>

\* updateCell(tableName, rowIndex, colIndex, value) from a rendered cell
UpdateCell(t, name, rowIndex, colIndex, value) ==
    /\ tasks[t].pc = "idle"
    /\ ~state.locked
    /\ hasTable(state.vault[1], name)
    /\ LET tbl == state.vault[1].tables[name]
       IN /\ rowIndex \in 0..(Len(tbl.rows) - 1)
          /\ colIndex \in 0..(Len(tbl.rows[rowIndex + 1]) - 1)
          /\ state' = [state EXCEPT !.vault = Some(putTable(state.vault[1], name,
                          [tbl EXCEPT !.rows[rowIndex + 1][colIndex + 1] = value]))]
    /\ SetTask(t, persistVault(state', [IdleTask EXCEPT !.op = "updateCell"], "mutate_done"))
    /\ UNCHANGED <<lockTimer, localStorage, remoteFile, snap, offlineSave>>

\* deleteRow(tableName, rowIndex) from a rendered row: rows.splice(rowIndex, 1)
DeleteRow(t, name, rowIndex) ==
    /\ tasks[t].pc = "idle"
    /\ ~state.locked
    /\ hasTable(state.vault[1], name)
    /\ LET tbl == state.vault[1].tables[name]
       IN /\ rowIndex \in 0..(Len(tbl.rows) - 1)
          /\ state' = [state EXCEPT !.vault = Some(putTable(state.vault[1], name,
                          [tbl EXCEPT !.rows = splice1(tbl.rows, rowIndex)]))]
    /\ SetTask(t, persistVault(state', [IdleTask EXCEPT !.op = "deleteRow"], "mutate_done"))
    /\ UNCHANGED <<lockTimer, localStorage, remoteFile, snap, offlineSave>>

\* CSV text is kept as its lines (the text split at '\n', each line trimmed),
\* a line as its characters
RECURSIVE parseRowFrom(_, _, _, _, _)
\* parseRow's loop from position i: a quote toggles inQ and is dropped, a
\* comma outside quotes ends the field, any other character joins it
parseRowFrom(line, i, cur, inQ, result) ==
    IF i > Len(line) THEN Append(result, cur)
    ELSE IF line[i] = "\"" THEN parseRowFrom(line, i + 1, cur, ~inQ, result)
    ELSE IF line[i] = "," /\ ~inQ
         THEN parseRowFrom(line, i + 1, "", inQ, Append(result, cur))
    ELSE parseRowFrom(line, i + 1, cur \o line[i], inQ, result)

parseRow(line) == parseRowFrom(line, 1, "", FALSE, <<>>)

\* .filter(Boolean): the empty lines are dropped
csvLines(csvText) == SelectSeq(csvText, LAMBDA l : l # <<>>)

\* lines.slice(1).map(parseRow)
csvRows(lines) == [i \in 1..(Len(lines) - 1) |-> parseRow(lines[i + 1])]

\* an import that takes a header without fields as a table without columns
csvColumns_DropEmpty(line) == SelectSeq(parseRow(line), LAMBDA f : f # "")

\* parseRow(lines[0])
csvColumns(line) == parseRow(line)

\* importCSV(tableName, csvText) up to persistVault: false for a text without
\* lines; else the rows are appended to the table of that name, or the table
\* is created from the header and the rows
ImportCSV(t, input, csvText) ==
    /\ tasks[t].pc = "idle"
    /\ ~state.locked
    /\ LET lines == csvLines(csvText)
           tk == [IdleTask EXCEPT !.op = "importCSV"]
           tableName == IF Trim(input) = "" THEN "Imported Table" ELSE Trim(input)
           v == state.vault[1]
       IN IF Len(lines) < 1
          THEN /\ SetTask(t, Returned(tk, "false"))
               /\ UNCHANGED state
          ELSE /\ hasTable(v, tableName) =>
                     Len(v.tables[tableName].rows) + Len(lines) - 1 <= MaxRows
               /\ state' = [state EXCEPT !.vault = Some(putTable(v, tableName,
                               IF hasTable(v, tableName)
                               THEN [v.tables[tableName] EXCEPT
                                        !.rows = @ \o csvRows(lines)]
                               ELSE [columns |-> csvColumns(lines[1]),
                                     rows |-> csvRows(lines)]))]
               /\ SetTask(t, persistVault(state', tk, "mutate_done"))
    /\ UNCHANGED <<lockTimer, localStorage, remoteFile, snap, offlineSave>>

\* a mutation after `await persistVault()`
MutateDone(t) ==
    /\ tasks[t].pc = "mutate_done"
    /\ SetTask(t, Returned(tasks[t], "true"))
    /\ UNCHANGED <<state, lockTimer, localStorage, remoteFile, snap, offlineSave>>

(* -------------------------- change password --------------------------- *)

\* the Change Password button with matching new passwords: Storage.loadLocal,
\* then Crypto.verify(payload, old) is called
ChangePassword(t, old, new) ==
    /\ tasks[t].pc = "idle"
    /\ ~state.locked
    /\ LET payload == loadLocal(localStorage)
           tk == [IdleTask EXCEPT !.op = "changePassword", !.pw = old, !.newPw = new]
       IN IF payload = Null
          THEN SetTask(t, Returned(tk, "novault"))
          ELSE SetTask(t, [tk EXCEPT !.pc = "chpw_verify", !.payload = payload])
    /\ UNCHANGED <<state, lockTimer, localStorage, remoteFile, snap, offlineSave>>

\* after `await Crypto.verify`: wrong old password, or Crypto.decrypt is called
ChpwVerified(t) ==
    /\ tasks[t].pc = "chpw_verify"
    /\ IF verify(tasks[t].payload[1], tasks[t].pw)
       THEN SetTask(t, [tasks[t] EXCEPT !.pc = "chpw_decrypt"])
       ELSE SetTask(t, Returned(tasks[t], "wrongold"))
    /\ UNCHANGED <<state, lockTimer, localStorage, remoteFile, snap, offlineSave>>

\* a handler that re-encrypts under the password it just verified
rekeyPassword_Old(old, new) == old

\* the password the handler re-encrypts under
rekeyPassword(old, new) == new

\* after `await Crypto.decrypt`: Crypto.encrypt(json, new) is called
ChpwDecrypted(t) ==
    /\ tasks[t].pc = "chpw_decrypt"
    /\ SetTask(t, [tasks[t] EXCEPT
           !.pc = "encrypt_await",
           !.json = Some(decrypt(tasks[t].payload[1], tasks[t].pw)),
           !.encPw = rekeyPassword(tasks[t].pw, tasks[t].newPw),
           !.inPersist = FALSE, !.cont = "chpw_saved"])
    /\ UNCHANGED <<state, lockTimer, localStorage, remoteFile, snap, offlineSave>>

\* after `await Storage.save(newPayload)`: App.lock()
ChpwSaved(t) ==
    /\ tasks[t].pc = "chpw_saved"
    /\ state' = lock(app).state
    /\ lockTimer' = lock(app).lockTimer
    /\ SetTask(t, Returned(tasks[t], "changed"))
    /\ UNCHANGED <<localStorage, remoteFile, snap, offlineSave>>

(* ---------------------------- GitHub setup ---------------------------- *)

\* the Connect button (shown while no config is stored): GitHub.testConnection
SetupGitHub(t) ==
    /\ tasks[t].pc = "idle"
    /\ ~state.locked
    /\ ~isConfigured(localStorage)
    /\ SetTask(t, [IdleTask EXCEPT !.pc = "setup_test", !.op = "setupGitHub"])
    /\ UNCHANGED <<state, lockTimer, localStorage, remoteFile, snap, offlineSave>>

\* after `await GitHub.testConnection`: false, or setConfig and GitHub.pull
SetupTested(t) ==
    /\ tasks[t].pc = "setup_test"
    /\ \/ /\ SetTask(t, Returned(tasks[t], "false"))
          /\ UNCHANGED localStorage
       \/ /\ localStorage' = setConfig(localStorage)
          /\ SetTask(t, [tasks[t] EXCEPT !.pc = "setup_pull"])
    /\ UNCHANGED <<state, lockTimer, remoteFile, snap, offlineSave>>

\* after `await GitHub.pull()`: it threw, or gave the remote file, or null
SetupPulled(t) ==
    /\ tasks[t].pc = "setup_pull"
    /\ \/ /\ SetTask(t, Returned(tasks[t], "threw"))
          /\ UNCHANGED offlineSave
       \/ /\ LET remote == pullResult(remoteFile)
             IN IF remote = Null
                THEN SetTask(t, persistVault(state, tasks[t], "setup_done"))
                ELSE SetTask(t, [tasks[t] EXCEPT
                         !.pc = "setup_decrypt",
                         !.payload = remote,
                         !.pw = IF state.password = Null THEN "null"
                                ELSE state.password[1]])
          /\ offlineSave' = Null
    /\ UNCHANGED <<state, lockTimer, localStorage, remoteFile, snap>>

\* after `await Crypto.decrypt(remote, state.password)`: it threw, or the
\* remote vault replaces the session's and the local envelope
SetupDecrypted(t) ==
    /\ tasks[t].pc = "setup_decrypt"
    /\ IF decryptOk(tasks[t].payload[1], tasks[t].pw)
       THEN /\ state' = [state EXCEPT !.vault =
                           Some(JSONparse(decrypt(tasks[t].payload[1], tasks[t].pw)))]
            /\ localStorage' = saveLocal(localStorage, tasks[t].payload[1])
            /\ SetTask(t, Returned([tasks[t] EXCEPT !.pw = ""], "true"))
       ELSE /\ SetTask(t, Returned([tasks[t] EXCEPT !.pw = ""], "threw"))
            /\ UNCHANGED <<state, localStorage>>
    /\ UNCHANGED <<lockTimer, remoteFile, snap, offlineSave>>

\* setupGitHub after `await persistVault()`
SetupDone(t) ==
    /\ tasks[t].pc = "setup_done"
    /\ SetTask(t, Returned(tasks[t], "true"))
    /\ UNCHANGED <<state, lockTimer, localStorage, remoteFile, snap, offlineSave>>

\* the Disconnect GitHub button (shown while a config is stored)
ClearGitHub ==
    /\ ~state.locked
    /\ isConfigured(localStorage)
    /\ localStorage' = clearConfig(localStorage)
    /\ UNCHANGED <<state, lockTimer, remoteFile, tasks, snap, offlineSave>>

(* --------------------------- specification ---------------------------- *)

Next ==
    \/ \E t \in TaskIds, pw \in Passwords : Start(t) /\ UnlockCall(t, pw)
    \/ \E t \in TaskIds : LoadResume(t)
    \/ \E t \in TaskIds : UnlockLoaded(t)
    \/ \E t \in TaskIds : UnlockFirstDone(t)
    \/ \E t \in TaskIds : UnlockVerified(t)
    \/ \E t \in TaskIds : UnlockDecrypted(t)
    \/ \E t \in TaskIds : Return(t)
    \/ \E t \in TaskIds : EncryptDone(t)
    \/ \E t \in TaskIds : SaveNoPush(t)
    \/ \E t \in TaskIds : PushGetSha(t)
    \/ \E t \in TaskIds : PushPut(t)
    \/ \E t \in TaskIds : SaveReturned(t)
    \/ \E t \in TaskIds, n \in TableNameInputs : Start(t) /\ CreateTable(t, n)
    \/ \E t \in TaskIds, n \in TableNames : Start(t) /\ DeleteTable(t, n)
    \/ \E t \in TaskIds, n \in TableNames : Start(t) /\ AddRow(t, n)
    \/ \E t \in TaskIds : MutateDone(t)
    \/ \E t \in TaskIds, old \in Passwords, new \in Passwords :
          Start(t) /\ ChangePassword(t, old, new)
    \/ \E t \in TaskIds : ChpwVerified(t)
    \/ \E t \in TaskIds : ChpwDecrypted(t)
    \/ \E t \in TaskIds : ChpwSaved(t)
    \/ \E t \in TaskIds : Start(t) /\ SetupGitHub(t)
    \/ \E t \in TaskIds : SetupTested(t)
    \/ \E t \in TaskIds : SetupPulled(t)
    \/ \E t \in TaskIds : SetupDecrypted(t)
    \/ \E t \in TaskIds : SetupDone(t)
    \/ AllIdle /\ ClearGitHub
    \/ AllIdle /\ Lock
    \/ AllIdle /\ TimerFire
    \/ Activity
    \/ \E n \in TableNames : AllIdle /\ OpenTable(n)
    \/ \E q \in SearchInputs : AllIdle /\ SetSearch(q)
    \/ AllIdle /\ ResetVault

Spec == Init /\ [][Next]_vars

(* ------------------------ a damaged Local Store ----------------------- *)

\* an envelope whose ciphertext was altered: its tag verifies under no password
TamperedEnvelope ==
    [salt |-> b64encode("s1"), iv |-> b64encode("iv1"),
     ciphertext |-> b64encode([key |-> <<"", "s1">>, iv |-> "iv1", pt |-> <<>>])]

\* what mv_vault can hold that unlock cannot read
CorruptTexts == {MalformedText, EnvToText(TamperedEnvelope)}

\* between sessions the stored text is damaged (another page of the origin,
\* a partial write, a restore of foreign data)
CorruptLocal ==
    /\ state.locked
    /\ AllIdle
    /\ hasLocal(localStorage)
    /\ \E x \in CorruptTexts :
          localStorage' = [localStorage EXCEPT !.mv_vault = Some(x)]
    /\ UNCHANGED <<state, lockTimer, remoteFile, tasks, snap, offlineSave>>

\* First run, edits, lock, damage to mv_vault, unlock attempts; no remote
NextCorrupt ==
    \/ \E t \in TaskIds, pw \in Passwords : Start(t) /\ UnlockCall(t, pw)
    \/ \E t \in TaskIds : LoadResume(t)
    \/ \E t \in TaskIds : UnlockLoaded(t)
    \/ \E t \in TaskIds : UnlockFirstDone(t)
    \/ \E t \in TaskIds : UnlockVerified(t)
    \/ \E t \in TaskIds : UnlockDecrypted(t)
    \/ \E t \in TaskIds : Return(t)
    \/ \E t \in TaskIds : EncryptDone(t)
    \/ \E t \in TaskIds : SaveNoPush(t)
    \/ \E t \in TaskIds : SaveReturned(t)
    \/ \E t \in TaskIds, n \in TableNames : Start(t) /\ CreateTable(t, n)
    \/ \E t \in TaskIds, n \in TableNames : Start(t) /\ AddRow(t, n)
    \/ \E t \in TaskIds : MutateDone(t)
    \/ AllIdle /\ Lock
    \/ CorruptLocal

SpecCorrupt == Init /\ [][NextCorrupt]_vars

(* ------------------------ the envelope round trip --------------------- *)

\* the strings of at most MaxText code units
Texts == UNION {[1..n -> CodeUnits] : n \in 0..MaxText}

\* a caller seals the text P under the password W: Crypto.encrypt(P, W)
RoundTripCall(t, P, W) ==
    /\ tasks[t].pc = "idle"
    /\ SetTask(t, [IdleTask EXCEPT !.pc = "rt_encrypt", !.op = "roundtrip",
                                   !.json = Some(P), !.encPw = W])
    /\ UNCHANGED <<state, lockTimer, localStorage, remoteFile, snap, offlineSave>>

\* encrypt resolves with the envelope; the caller passes it to Crypto.decrypt
RoundTripEncrypted(t) ==
    /\ tasks[t].pc = "rt_encrypt"
    /\ \E salt \in Salts, iv \in IVs :
          SetTask(t, [tasks[t] EXCEPT
                         !.pc = "rt_decrypt",
                         !.enc = Some(encrypt(tasks[t].json[1], tasks[t].encPw, salt, iv))])
    /\ UNCHANGED <<state, lockTimer, localStorage, remoteFile, snap, offlineSave>>

\* decrypt resolves with the text, or throws
RoundTripDecrypted(t) ==
    /\ tasks[t].pc = "rt_decrypt"
    /\ IF decryptOk(tasks[t].enc[1], tasks[t].encPw)
       THEN SetTask(t, [tasks[t] EXCEPT
                           !.pc = "rt_done",
                           !.plain = Some(decrypt(tasks[t].enc[1], tasks[t].encPw))])
       ELSE SetTask(t, Returned(tasks[t], "threw"))
    /\ UNCHANGED <<state, lockTimer, localStorage, remoteFile, snap, offlineSave>>

\* the caller is done with the result
RoundTripReturn(t) ==
    /\ tasks[t].pc = "rt_done"
    /\ SetTask(t, IdleTask)
    /\ UNCHANGED <<state, lockTimer, localStorage, remoteFile, snap, offlineSave>>

NextRoundTrip ==
    \/ \E t \in TaskIds, P \in Texts, W \in Passwords : Start(t) /\ RoundTripCall(t, P, W)
    \/ \E t \in TaskIds : RoundTripEncrypted(t)
    \/ \E t \in TaskIds : RoundTripDecrypted(t)
    \/ \E t \in TaskIds : RoundTripReturn(t)

SpecRoundTrip == Init /\ [][NextRoundTrip]_vars

(* ---------------------- opening under a password -------------------- *)

\* the passwords and texts the calls are made with
CryptoPasswords == Passwords \cup SurrogatePasswords
CryptoTexts == {<<>>, <<"a">>}

\* a caller seals P under W1 and tries the envelope with W2
WrongPwCall(t, P, W1, W2) ==
    /\ tasks[t].pc = "idle"
    /\ SetTask(t, [IdleTask EXCEPT !.pc = "wp_encrypt", !.op = "openWith",
                                   !.json = Some(P), !.encPw = W1, !.pw = W2])
    /\ UNCHANGED <<state, lockTimer, localStorage, remoteFile, snap, offlineSave>>

\* Crypto.encrypt(P, W1) resolves; Crypto.verify(envelope, W2) is called
WrongPwEncrypted(t) ==
    /\ tasks[t].pc = "wp_encrypt"
    /\ \E salt \in Salts, iv \in IVs :
          SetTask(t, [tasks[t] EXCEPT
                         !.pc = "wp_verify",
                         !.enc = Some(encrypt(tasks[t].json[1], tasks[t].encPw, salt, iv))])
    /\ UNCHANGED <<state, lockTimer, localStorage, remoteFile, snap, offlineSave>>

\* verify resolves with true or false; Crypto.decrypt(envelope, W2) is called
WrongPwVerified(t) ==
    /\ tasks[t].pc = "wp_verify"
    /\ SetTask(t, [tasks[t] EXCEPT
                      !.pc = "wp_decrypt",
                      !.result = IF verify(tasks[t].enc[1], tasks[t].pw)
                                 THEN "true" ELSE "false"])
    /\ UNCHANGED <<state, lockTimer, localStorage, remoteFile, snap, offlineSave>>

\* decrypt resolves with the text, or rejects (plain stays null)
WrongPwDecrypted(t) ==
    /\ tasks[t].pc = "wp_decrypt"
    /\ SetTask(t, [tasks[t] EXCEPT
                      !.pc = "wp_done",
                      !.plain = IF decryptOk(tasks[t].enc[1], tasks[t].pw)
                                THEN Some(decrypt(tasks[t].enc[1], tasks[t].pw))
                                ELSE Null])
    /\ UNCHANGED <<state, lockTimer, localStorage, remoteFile, snap, offlineSave>>

\* the caller is done with the results
WrongPwReturn(t) ==
    /\ tasks[t].pc = "wp_done"
    /\ SetTask(t, IdleTask)
    /\ UNCHANGED <<state, lockTimer, localStorage, remoteFile, snap, offlineSave>>

NextWrongPw ==
    \/ \E t \in TaskIds, P \in CryptoTexts, W1 \in CryptoPasswords, W2 \in CryptoPasswords :
          Start(t) /\ WrongPwCall(t, P, W1, W2)
    \/ \E t \in TaskIds : WrongPwEncrypted(t)
    \/ \E t \in TaskIds : WrongPwVerified(t)
    \/ \E t \in TaskIds : WrongPwDecrypted(t)
    \/ \E t \in TaskIds : WrongPwReturn(t)

SpecWrongPw == Init /\ [][NextWrongPw]_vars

(* ----------------------- after a password change -------------------- *)

\* no handler is in flight; slot 2 may keep the finished Change Password
\* call (what it was given and how its push went)
Quiet == tasks[1].pc = "idle" /\ tasks[2].pc \in {"idle", "returned"}

\* A session with GitHub sync, one Change Password call, and the unlock
\* attempts that follow it
NextRekey ==
    \/ \E pw \in Passwords : Quiet /\ UnlockCall(1, pw)
    \/ LoadResume(1)
    \/ UnlockLoaded(1)
    \/ UnlockFirstDone(1)
    \/ UnlockVerified(1)
    \/ UnlockDecrypted(1)
    \/ Return(1)
    \/ \E t \in TaskIds : EncryptDone(t)
    \/ \E t \in TaskIds : SaveNoPush(t)
    \/ \E t \in TaskIds : PushGetSha(t)
    \/ \E t \in TaskIds : PushPut(t)
    \/ \E t \in TaskIds : SaveReturned(t)
    \/ AllIdle /\ SetupGitHub(1)
    \/ SetupTested(1)
    \/ SetupPulled(1)
    \/ SetupDecrypted(1)
    \/ SetupDone(1)
    \/ AllIdle /\ ClearGitHub
    \/ \E old \in Passwords, new \in Passwords : AllIdle /\ ChangePassword(2, old, new)
    \/ ChpwVerified(2)
    \/ ChpwDecrypted(2)
    \/ ChpwSaved(2)
    \/ Quiet /\ Lock

SpecRekey == Init /\ [][NextRekey]_vars

(* ------------------------------ fairness ----------------------------- *)

\* a handler in flight takes its next step: a promise it awaits settles
HandlerStep ==
    \E t \in TaskIds :
        \/ LoadResume(t) \/ UnlockLoaded(t) \/ UnlockFirstDone(t)
        \/ UnlockVerified(t) \/ UnlockDecrypted(t) \/ Return(t)
        \/ EncryptDone(t) \/ SaveNoPush(t) \/ PushGetSha(t) \/ PushPut(t)
        \/ SaveReturned(t) \/ MutateDone(t)
        \/ ChpwVerified(t) \/ ChpwDecrypted(t) \/ ChpwSaved(t)
        \/ SetupTested(t) \/ SetupPulled(t) \/ SetupDecrypted(t) \/ SetupDone(t)

\* something the user does: an input event or the start of a handler
UserStep ==
    \/ \E t \in TaskIds : tasks[t].pc = "idle" /\ tasks'[t].pc # "idle"
    \/ Activity \/ Lock \/ ClearGitHub \/ ResetVault
    \/ \E n \in TableNames : OpenTable(n)
    \/ \E q \in SearchInputs : SetSearch(q)

\* the session's life: unlock, edits, GitHub sync, lock, the timer, activity
NextLive ==
    \/ \E t \in TaskIds, pw \in Passwords : Start(t) /\ UnlockCall(t, pw)
    \/ \E t \in TaskIds : LoadResume(t)
    \/ \E t \in TaskIds : UnlockLoaded(t)
    \/ \E t \in TaskIds : UnlockFirstDone(t)
    \/ \E t \in TaskIds : UnlockVerified(t)
    \/ \E t \in TaskIds : UnlockDecrypted(t)
    \/ \E t \in TaskIds : Return(t)
    \/ \E t \in TaskIds : EncryptDone(t)
    \/ \E t \in TaskIds : SaveNoPush(t)
    \/ \E t \in TaskIds : PushGetSha(t)
    \/ \E t \in TaskIds : PushPut(t)
    \/ \E t \in TaskIds : SaveReturned(t)
    \/ \E t \in TaskIds, n \in TableNames : Start(t) /\ CreateTable(t, n)
    \/ \E t \in TaskIds, n \in TableNames : Start(t) /\ AddRow(t, n)
    \/ \E t \in TaskIds : MutateDone(t)
    \/ \E t \in TaskIds : Start(t) /\ SetupGitHub(t)
    \/ \E t \in TaskIds : SetupTested(t)
    \/ \E t \in TaskIds : SetupPulled(t)
    \/ \E t \in TaskIds : SetupDecrypted(t)
    \/ \E t \in TaskIds : SetupDone(t)
    \/ AllIdle /\ ClearGitHub
    \/ AllIdle /\ Lock
    \/ AllIdle /\ TimerFire
    \/ Activity

\* the scheduling the platform gives: awaited promises settle, and a pending
\* timeout fires once the page is idle
SpecLive ==
    /\ Init /\ [][NextLive]_vars
    /\ WF_vars(HandlerStep)
    /\ WF_vars(AllIdle /\ TimerFire)

(* ------------------ events between the awaits ------------------------ *)

\* positions a handler leaves in the same turn of the event loop: the
\* continuation after an async function of this program has returned
MicrotaskPcs == {"unlock_loaded", "save_returned", "mutate_done", "unlock_first",
                 "setup_done", "chpw_saved", "returned"}

\* a new event (a click, a timer, a network or crypto completion) is
\* dispatched only when no continuation is queued
EventTurn == \A u \in TaskIds : tasks[u].pc \notin MicrotaskPcs

\* One handler at a time, but the lock button, the lock timer, the activity
\* listeners and the reset link act while the handler is suspended at an await
NextConc ==
    \/ \E t \in TaskIds, pw \in Passwords : Start(t) /\ UnlockCall(t, pw)
    \/ \E t \in TaskIds : EventTurn /\ LoadResume(t)
    \/ \E t \in TaskIds : UnlockLoaded(t)
    \/ \E t \in TaskIds : UnlockFirstDone(t)
    \/ \E t \in TaskIds : EventTurn /\ UnlockVerified(t)
    \/ \E t \in TaskIds : EventTurn /\ UnlockDecrypted(t)
    \/ \E t \in TaskIds : Return(t)
    \/ \E t \in TaskIds : EventTurn /\ EncryptDone(t)
    \/ \E t \in TaskIds : EventTurn /\ SaveNoPush(t)
    \/ \E t \in TaskIds : EventTurn /\ PushGetSha(t)
    \/ \E t \in TaskIds : EventTurn /\ PushPut(t)
    \/ \E t \in TaskIds : SaveReturned(t)
    \/ \E t \in TaskIds, n \in TableNames : Start(t) /\ CreateTable(t, n)
    \/ \E t \in TaskIds, n \in TableNames : Start(t) /\ AddRow(t, n)
    \/ \E t \in TaskIds : MutateDone(t)
    \/ \E t \in TaskIds : Start(t) /\ SetupGitHub(t)
    \/ \E t \in TaskIds : EventTurn /\ SetupTested(t)
    \/ \E t \in TaskIds : EventTurn /\ SetupPulled(t)
    \/ \E t \in TaskIds : EventTurn /\ SetupDecrypted(t)
    \/ \E t \in TaskIds : SetupDone(t)
    \/ EventTurn /\ Lock
    \/ EventTurn /\ TimerFire
    \/ EventTurn /\ Activity
    \/ EventTurn /\ ResetVault

SpecConc == Init /\ [][NextConc]_vars

(* ------------------------- the table editor --------------------------- *)

\* the names entered in the table editor
EditorTableNames == TableNames \cup {"Bank"}
EditorNameInputs == TableNameInputs \cup {"Bank"}
\* the password the editor's session is created with
EditorPasswords == {"hunter2duck"}

\* A first run followed by edits of tables, columns and rows, one handler at
\* a time and without a remote
NextTables ==
    \/ \E t \in TaskIds, pw \in EditorPasswords : Start(t) /\ UnlockCall(t, pw)
    \/ \E t \in TaskIds : LoadResume(t)
    \/ \E t \in TaskIds : UnlockLoaded(t)
    \/ \E t \in TaskIds : UnlockFirstDone(t)
    \/ \E t \in TaskIds : Return(t)
    \/ \E t \in TaskIds : EncryptDone(t)
    \/ \E t \in TaskIds : SaveNoPush(t)
    \/ \E t \in TaskIds : SaveReturned(t)
    \/ \E t \in TaskIds, n \in EditorNameInputs : Start(t) /\ CreateTable(t, n)
    \/ \E t \in TaskIds, o \in EditorTableNames, n \in EditorNameInputs :
          Start(t) /\ RenameTable(t, o, n)
    \/ \E t \in TaskIds, n \in EditorTableNames : Start(t) /\ DeleteTable(t, n)
    \/ \E t \in TaskIds, n \in EditorTableNames, c \in ColNameInputs :
          Start(t) /\ AddColumn(t, n, c)
    \/ \E t \in TaskIds, n \in EditorTableNames, i \in ColIndexInputs :
          Start(t) /\ DeleteColumn(t, n, i)
    \/ \E t \in TaskIds, n \in EditorTableNames : Start(t) /\ AddRow(t, n)
    \/ \E t \in TaskIds : MutateDone(t)

SpecTables == Init /\ [][NextTables]_vars

(* ------------------------- the editor with import --------------------- *)

\* the CSV texts the model imports: no line; a header that is one pair of
\* quotes; a header of two fields with a row of one; a header of one field
\* with a row holding a quoted comma
CsvTexts ==
    { <<>>,
      << <<"\"", "\"">> >>,
      << <<"a", ",", "b">>, <<"1">> >>,
      << <<"a">>, <<"\"", "1", ",", "2", "\"">> >> }

ImportNameInputs == {"Logins"}
CellValues == {"x"}
ColumnNameInputs == {"", "x"}

\* First run, then every operation that edits tables, columns, rows and
\* cells, and CSV import; no remote
NextImport ==
    \/ \E t \in TaskIds, pw \in EditorPasswords : Start(t) /\ UnlockCall(t, pw)
    \/ \E t \in TaskIds : LoadResume(t)
    \/ \E t \in TaskIds : UnlockLoaded(t)
    \/ \E t \in TaskIds : UnlockFirstDone(t)
    \/ \E t \in TaskIds : Return(t)
    \/ \E t \in TaskIds : EncryptDone(t)
    \/ \E t \in TaskIds : SaveNoPush(t)
    \/ \E t \in TaskIds : SaveReturned(t)
    \/ \E t \in TaskIds, n \in TableNames : Start(t) /\ CreateTable(t, n)
    \/ \E t \in TaskIds, n \in TableNames, c \in ColNameInputs :
          Start(t) /\ AddColumn(t, n, c)
    \/ \E t \in TaskIds, n \in TableNames, i \in {-1, 0}, c \in ColumnNameInputs :
          Start(t) /\ RenameColumn(t, n, i, c)
    \/ \E t \in TaskIds, n \in TableNames, i \in ColIndexInputs :
          Start(t) /\ DeleteColumn(t, n, i)
    \/ \E t \in TaskIds, n \in TableNames : Start(t) /\ AddRow(t, n)
    \/ \E t \in TaskIds, n \in TableNames, x \in CellValues :
          Start(t) /\ UpdateCell(t, n, 0, 0, x)
    \/ \E t \in TaskIds, n \in TableNames : Start(t) /\ DeleteRow(t, n, 0)
    \/ \E t \in TaskIds, n \in ImportNameInputs, csv \in CsvTexts :
          Start(t) /\ ImportCSV(t, n, csv)
    \/ \E t \in TaskIds : MutateDone(t)

SpecImport == Init /\ [][NextImport]_vars

(* --------------------------- renaming tables -------------------------- *)

\* First run, then tables are created, filled, deleted and renamed, under
\* names the vault has and names it has not; no remote
NextRename ==
    \/ \E t \in TaskIds, pw \in EditorPasswords : Start(t) /\ UnlockCall(t, pw)
    \/ \E t \in TaskIds : LoadResume(t)
    \/ \E t \in TaskIds : UnlockLoaded(t)
    \/ \E t \in TaskIds : UnlockFirstDone(t)
    \/ \E t \in TaskIds : Return(t)
    \/ \E t \in TaskIds : EncryptDone(t)
    \/ \E t \in TaskIds : SaveNoPush(t)
    \/ \E t \in TaskIds : SaveReturned(t)
    \/ \E t \in TaskIds, n \in EditorNameInputs : Start(t) /\ CreateTable(t, n)
    \/ \E t \in TaskIds, n \in EditorTableNames : Start(t) /\ DeleteTable(t, n)
    \/ \E t \in TaskIds, n \in EditorTableNames : Start(t) /\ AddRow(t, n)
    \/ \E t \in TaskIds, o \in EditorTableNames, n \in EditorNameInputs :
          Start(t) /\ RenameTable(t, o, n)
    \/ \E t \in TaskIds, o \in EditorTableNames, n \in EditorNameInputs :
          Start(t) /\ RenameMissingTable(t, o, n)
    \/ \E t \in TaskIds : MutateDone(t)

SpecRename == Init /\ [][NextRename]_vars

(* ----------------------- overlapping mutations ------------------------ *)

\* the table operations of the editor screen
MutatorOps == {"createTable", "deleteTable", "addRow"}

\* the editor's buttons stay enabled while a mutation is suspended at an
\* await: a mutation may start whenever the handlers in flight are mutations
StartOverlap(t) ==
    /\ EventTurn
    /\ tasks[t].pc = "idle"
    /\ t = 1 \/ tasks[1].pc # "idle"
    /\ \A u \in TaskIds : tasks[u].pc # "idle" => tasks[u].op \in MutatorOps

\* A first run, then mutations issued without awaiting each other: their
\* encryptions and saves settle in any order
NextOverlap ==
    \/ \E t \in TaskIds, pw \in EditorPasswords : Start(t) /\ UnlockCall(t, pw)
    \/ \E t \in TaskIds : EventTurn /\ LoadResume(t)
    \/ \E t \in TaskIds : UnlockLoaded(t)
    \/ \E t \in TaskIds : UnlockFirstDone(t)
    \/ \E t \in TaskIds : Return(t)
    \/ \E t \in TaskIds : EventTurn /\ EncryptDone(t)
    \/ \E t \in TaskIds : EventTurn /\ SaveNoPush(t)
    \/ \E t \in TaskIds : SaveReturned(t)
    \/ \E t \in TaskIds, n \in TableNames : StartOverlap(t) /\ CreateTable(t, n)
    \/ \E t \in TaskIds, n \in TableNames : StartOverlap(t) /\ DeleteTable(t, n)
    \/ \E t \in TaskIds, n \in TableNames : StartOverlap(t) /\ AddRow(t, n)
    \/ \E t \in TaskIds : MutateDone(t)

SpecOverlap == Init /\ [][NextOverlap]_vars

(* ------------------- overlapping saves with a remote ------------------ *)

\* A first run, GitHub setup, then mutations issued without awaiting each
\* other: their encryptions, saves and pushes settle in any order
NextOverlapSync ==
    \/ \E t \in TaskIds, pw \in EditorPasswords : Start(t) /\ UnlockCall(t, pw)
    \/ \E t \in TaskIds : EventTurn /\ LoadResume(t)
    \/ \E t \in TaskIds : UnlockLoaded(t)
    \/ \E t \in TaskIds : UnlockFirstDone(t)
    \/ \E t \in TaskIds : Return(t)
    \/ \E t \in TaskIds : EventTurn /\ EncryptDone(t)
    \/ \E t \in TaskIds : EventTurn /\ SaveNoPush(t)
    \/ \E t \in TaskIds : EventTurn /\ PushGetSha(t)
    \/ \E t \in TaskIds : EventTurn /\ PushPut(t)
    \/ \E t \in TaskIds : SaveReturned(t)
    \/ \E t \in TaskIds : Start(t) /\ SetupGitHub(t)
    \/ \E t \in TaskIds : EventTurn /\ SetupTested(t)
    \/ \E t \in TaskIds : EventTurn /\ SetupPulled(t)
    \/ \E t \in TaskIds : SetupDone(t)
    \/ \E t \in TaskIds, n \in TableNames : StartOverlap(t) /\ CreateTable(t, n)
    \/ \E t \in TaskIds, n \in TableNames : StartOverlap(t) /\ AddRow(t, n)
    \/ \E t \in TaskIds : MutateDone(t)

SpecOverlapSync == Init /\ [][NextOverlapSync]_vars

(* ------------------------------- claims ------------------------------- *)

Saving(t) == tasks[t].pc \in {"push_getsha", "push_put", "save_nopush", "save_returned"}

\* C1: Storage.save(envelope) writes the envelope to Local Store before the
\* push is attempted, and when it returns Local Store holds exactly that
\* envelope, with the pending flag cleared after a push that succeeded and set
\* after a push that failed.
C1_SaveLocalFirst ==
    \A t \in TaskIds :
        /\ Saving(t) => loadLocal(localStorage) = tasks[t].enc
        /\ tasks[t].pc = "save_returned" /\ tasks[t].push = "ok"
              => ~hasPending(localStorage)
        /\ tasks[t].pc = "save_returned" /\ tasks[t].push = "fail"
              => hasPending(localStorage)

\* a save has returned after its push failed, the remote holding another envelope
C1_Witness ==
    \E t \in TaskIds :
        /\ tasks[t].pc = "save_returned" /\ tasks[t].push = "fail"
        /\ remoteFile # Null
        /\ remoteFile # localStorage.mv_vault

HandlerOps == {"unlock", "createTable", "deleteTable", "addRow",
               "changePassword", "setupGitHub"}

\* C2: a remote failure never leaves the orchestrator: a save whose push threw
\* returns normally with the pending flag set, a load whose pull threw returns
\* normally, and the handler that called them returns its normal result.
C2_RemoteFailureContained ==
    \A t \in TaskIds :
        /\ tasks[t].push = "fail" /\ tasks[t].pc # "returned"
              => tasks[t].pc \in {"save_returned", "mutate_done", "unlock_first",
                                  "setup_done", "chpw_saved"}
        /\ tasks[t].push = "fail" /\ tasks[t].pc = "save_returned"
              => hasPending(localStorage)
        /\ tasks[t].pull = "fail" /\ tasks[t].pc # "returned"
              => tasks[t].op = "unlock"
        /\ tasks[t].pc = "returned" /\ (tasks[t].push = "fail" \/ tasks[t].pull = "fail")
              => tasks[t].result \in {"true", "ok", "ok_first", "wrong", "changed"}

\* a mutation has returned true although its push failed
C2_Witness ==
    \E t \in TaskIds :
        /\ tasks[t].pc = "returned" /\ tasks[t].push = "fail"
        /\ tasks[t].op = "createTable" /\ tasks[t].result = "true"

\* C3: offline durability: after a save whose push failed Local Store holds
\* the saved envelope and the pending flag is set, and a later load whose pull
\* fails too returns that envelope from Local Store.
C3_OfflineDurability ==
    \A t \in TaskIds :
        /\ tasks[t].pc = "save_returned" /\ tasks[t].push = "fail"
              => /\ loadLocal(localStorage) = tasks[t].enc
                 /\ hasPending(localStorage)
                 /\ offlineSave = tasks[t].enc
        /\ tasks[t].pc = "unlock_loaded" /\ tasks[t].pull = "fail" /\ offlineSave # Null
              => /\ tasks[t].payload = offlineSave
                 /\ loadLocal(localStorage) = offlineSave
                 /\ hasPending(localStorage)

\* a load fell back to the envelope of a save whose push had failed
C3_Witness ==
    \E t \in TaskIds :
        /\ tasks[t].pc = "unlock_loaded" /\ tasks[t].pull = "fail"
        /\ offlineSave # Null
        /\ tasks[t].payload = offlineSave

\* the step in which a save's PUT is accepted
PushSucceeds(t) ==
    /\ tasks[t].pc = "push_put"
    /\ tasks'[t].pc = "save_returned" /\ tasks'[t].push = "ok"

\* the step in which a save without a configured remote finishes
NoPushSave(t) == tasks[t].pc = "save_nopush" /\ tasks'[t].pc = "save_returned"

\* C4 as stated: the pending flag is false after a save whose push succeeds,
\* and once set by a failed save it stays set until a save whose push
\* succeeds.
C4_Original ==
    [][/\ \A t \in TaskIds : PushSucceeds(t) => ~hasPending(localStorage')
       /\ hasPending(localStorage) /\ ~hasPending(localStorage')
             => \E t \in TaskIds : PushSucceeds(t)]_vars

\* C4: the pending flag is false after a save whose push succeeds, and once
\* set by a failed save it stays set until a later save ends without a failed
\* push (its push succeeds, or no remote is configured any more and none is
\* attempted) or the vault is reset.
C4_PendingClearsOnRecovery ==
    [][/\ \A t \in TaskIds : PushSucceeds(t) => ~hasPending(localStorage')
       /\ hasPending(localStorage) /\ ~hasPending(localStorage')
             => \/ \E t \in TaskIds : PushSucceeds(t) \/ NoPushSave(t)
                \/ localStorage' = EmptyStore]_vars

\* a push has just succeeded while the session still shows the failed one
C4_Witness ==
    \E t \in TaskIds :
        /\ tasks[t].pc = "save_returned" /\ tasks[t].push = "ok"
        /\ state.pendingSync
        /\ ~hasPending(localStorage)

\* the step in which Storage.load returns
LoadReturns(t) == tasks[t].pc = "load_await" /\ tasks'[t].pc = "unlock_loaded"

\* C5: load is remote-first: a pull that gives an envelope R makes load return
\* R and leaves R in Local Store; a pull that fails or gives nothing, or no
\* configured remote, makes load return the Local Store envelope (or absent)
\* and leaves Local Store as it was.
C5_LoadRemoteFirst ==
    [][\A t \in TaskIds : LoadReturns(t) =>
          IF tasks'[t].pull = "ok"
          THEN /\ remoteFile # Null
               /\ tasks'[t].payload = Some(TextToEnv(remoteFile[1]))
               /\ loadLocal(localStorage') = tasks'[t].payload
          ELSE /\ localStorage' = localStorage
               /\ tasks'[t].payload = loadLocal(localStorage)]_vars

\* a load has returned the remote envelope over a different local one
C5_Witness ==
    \E t \in TaskIds :
        /\ tasks[t].pc = "unlock_loaded" /\ tasks[t].pull = "ok"
        /\ tasks[t].payload # Null
        /\ hasPending(localStorage)

UnlockReturned(t) == tasks[t].pc = "returned" /\ tasks[t].op = "unlock"

\* C6: first run: when load yields no envelope, unlock(password) returns
\* {ok: true, firstRun: true} with the session unlocked, the vault the empty
\* vault {version 1, no tables}, the password adopted, and Local Store holding
\* an envelope that decrypts under that password to the empty vault.
C6_FirstRun ==
    \A t \in TaskIds :
        UnlockReturned(t) /\ tasks[t].payload = Null =>
            /\ tasks[t].result = "ok_first"
            /\ state.vault = Some([version |-> 1, tables |-> <<>>])
            /\ state.password = Some(tasks[t].pw)
            /\ ~state.locked
            /\ loadLocal(localStorage) # Null
            /\ decryptOk(loadLocal(localStorage)[1], tasks[t].pw)
            /\ JSONparse(decrypt(loadLocal(localStorage)[1], tasks[t].pw))
                  = [version |-> 1, tables |-> <<>>]

\* a first-run unlock has returned
C6_Witness ==
    \E t \in TaskIds : UnlockReturned(t) /\ tasks[t].result = "ok_first"

\* C7: wrong password: when the loaded envelope does not decrypt under the
\* given password, unlock returns {ok: false} and the session is as before:
\* locked, vault and password null, timer not armed.
C7_WrongPasswordUntouched ==
    \A t \in TaskIds :
        (/\ UnlockReturned(t)
         /\ tasks[t].payload # Null
         /\ ~decryptOk(tasks[t].payload[1], tasks[t].pw)) =>
            /\ tasks[t].result = "wrong"
            /\ state.locked
            /\ state.vault = Null
            /\ state.password = Null
            /\ state.activeTable = Null /\ state.searchQuery = ""
            /\ ~lockTimer

\* an unlock with the wrong password has returned
C7_Witness ==
    \E t \in TaskIds :
        /\ UnlockReturned(t) /\ tasks[t].result = "wrong"
        /\ tasks[t].payload # Null

\* C8: mutations persist across lock and unlock: an unlock with the password
\* of the session that lock() ended succeeds and restores the vault as it was
\* just before the lock, whatever the pushes and pulls did.
C8_MutationsPersist ==
    \A t \in TaskIds :
        (UnlockReturned(t) /\ snap # Null /\ tasks[t].pw = snap[1].password) =>
            /\ tasks[t].result = "ok"
            /\ state.vault = Some(snap[1].vault)

\* C9: lock() is total and idempotent: from every state its result is locked,
\* with password and vault null, activeTable and searchQuery reset and the
\* timer cancelled, and lock() of that result is the result; a session that
\* lock() has ended, with no handler running since, is in exactly that state.
C9_LockIdempotent ==
    LET r == lock(app)
    IN /\ r.state.locked
       /\ r.state.password = Null /\ r.state.vault = Null
       /\ r.state.activeTable = Null /\ r.state.searchQuery = ""
       /\ ~r.lockTimer
       /\ lock(r) = r
       /\ snap # Null /\ AllIdle => app = r

\* lock() has ended a session that had a table
C9_Witness ==
    /\ snap # Null
    /\ state.locked
    /\ DOMAIN snap[1].vault.tables # {}

ChangedPassword(t) ==
    /\ tasks[t].pc = "returned" /\ tasks[t].op = "changePassword"
    /\ tasks[t].result = "changed"

FirstRunTaken(t) == tasks[t].pc = "unlock_loaded" /\ tasks[t].payload = Null

\* C11: unlock takes the first-run path only when neither Local Store nor the
\* configured remote store holds an envelope; on the other path the session is
\* unlocked only with a password the loaded envelope verifies under.
C11_FirstRunOnlyWhenNoEnvelope ==
    \A t \in TaskIds :
        /\ FirstRunTaken(t) =>
              /\ ~hasLocal(localStorage)
              /\ isConfigured(localStorage) => remoteFile = Null
        /\ tasks[t].pc = "unlock_decrypt" => verify(tasks[t].payload[1], tasks[t].pw)

\* every row of every table is as long as the table's column list
RowsMatchColumns(v) ==
    \A n \in DOMAIN v.tables :
        \A i \in 1..Len(v.tables[n].rows) :
            Len(v.tables[n].rows[i]) = Len(v.tables[n].columns)

\* C12: starting from createTable, after any sequence of addColumn,
\* deleteColumn (any index) and addRow, every row of every table has as many
\* cells as the table has columns.
C12_RowsMatchColumns == state.vault # Null => RowsMatchColumns(state.vault[1])

\* a deleteColumn has spliced a table that has a row
C12_Witness ==
    \E t \in TaskIds :
        /\ tasks[t].op = "deleteColumn" /\ tasks[t].pc = "mutate_done"
        /\ \E n \in DOMAIN state.vault[1].tables : state.vault[1].tables[n].rows # <<>>

\* C13: whenever no save is in flight, the session field pendingSync equals
\* the Local Store pending flag, after any sequence of unlock, mutations,
\* change-password and lock (stated while Local Store holds a vault, which
\* leaves the reset link out).
C13_PendingSyncMirrors ==
    AllIdle /\ hasLocal(localStorage) => state.pendingSync = hasPending(localStorage)

\* C14: in every reachable state a locked session has no pending lock timer,
\* so the timer never fires lock() on a locked session and activity while
\* locked does not arm it.
C14_NoTimerWhileLocked == state.locked => ~lockTimer

\* a session that had been unlocked is locked again, its timer disarmed
C14_Witness == state.locked /\ snap # Null /\ ~lockTimer

\* what a successful unlock and an activity signal leave of the timer
TimerArmed ==
    /\ \A t \in TaskIds :
          UnlockReturned(t) /\ tasks[t].result \in {"ok", "ok_first"} => lockTimer
    /\ ~state.locked => resetLockTimer(state, lockTimer)

\* C15: every successful unlock arms the inactivity timer, every activity
\* signal while unlocked re-arms it, and unless the user keeps acting forever
\* an armed timer expires and the session becomes locked.
C15_AutoLock ==
    /\ []TimerArmed
    /\ ([]<><<UserStep>>_vars) \/ (lockTimer ~> state.locked)

\* an unlock of an existing vault has returned with the timer armed
C15_Witness ==
    \E t \in TaskIds :
        /\ UnlockReturned(t) /\ tasks[t].result = "ok"
        /\ lockTimer /\ ~state.locked

\* C16: whenever the session is unlocked and no mutating operation is in
\* flight, the Local Store envelope decrypts under the session password to the
\* serialization of the in-memory vault, also when mutations overlap.
C16_EnvelopeMatchesVault ==
    (~state.locked /\ AllIdle) =>
        /\ hasLocal(localStorage)
        /\ decryptOk(loadLocal(localStorage)[1], state.password[1])
        /\ decrypt(loadLocal(localStorage)[1], state.password[1])
              = JSONstringify(state.vault[1])

\* what a rejected call leaves alone: the session state (vault and pending
\* flag included), the Local Store and the remote file
RejectedCall(t) ==
    /\ tasks'[t].pc = "returned"
    /\ tasks'[t].result = "false"
    /\ UNCHANGED <<state, localStorage, remoteFile>>

\* C17: createTable with a name that is empty after trimming or already
\* exists, and renameTable with a new name that is empty after trimming,
\* unchanged or already taken, return false and leave the vault, the stored
\* envelope and the pending flag as they were.
C17_RejectedNamesChangeNothing ==
    [][\A t \in TaskIds, input \in EditorNameInputs :
          /\ (/\ CreateTable(t, input)
              /\ Trim(input) = "" \/ hasTable(state.vault[1], Trim(input)))
                => RejectedCall(t)
          /\ \A oldName \in EditorTableNames :
                (/\ RenameTable(t, oldName, input)
                 /\ \/ Trim(input) = ""
                    \/ Trim(input) = oldName
                    \/ hasTable(state.vault[1], Trim(input)))
                => RejectedCall(t)]_vars

C17_Witness ==
    \E t \in TaskIds :
        /\ tasks[t].pc = "returned"
        /\ tasks[t].op = "renameTable"
        /\ tasks[t].result = "false"
        /\ Cardinality(DOMAIN state.vault[1].tables) = 2
        /\ hasLocal(localStorage)

\* the Local Store holds text that unlock(pw) cannot read: not JSON, or an
\* envelope that does not decrypt under pw
Unreadable(ls, pw) ==
    /\ hasLocal(ls)
    /\ \/ JSONparseThrows(ls.mv_vault[1])
       \/ ~decryptOk(TextToEnv(ls.mv_vault[1]), pw)

\* C18: an unlock that met stored data it cannot read under the given
\* password (damaged, malformed, or sealed under another password) returns
\* {ok: false}; it never throws.
C18_UnreadableIsWrongPassword ==
    \A t \in TaskIds :
        (/\ tasks[t].pc = "returned"
         /\ tasks[t].op = "unlock"
         /\ Unreadable(localStorage, tasks[t].pw))
            => tasks[t].result = "wrong"

\* where a handler is between persistVault's capture and its own return
PersistPcs ==
    {"encrypt_await", "save_nopush", "push_getsha", "push_put", "save_returned",
     "unlock_first", "mutate_done", "setup_done"}

\* C19: a lock() that runs after persistVault captured the serialized vault
\* and the password does not abort the save: when the encryption resolves the
\* envelope of the captured text under the captured password is written to the
\* Local Store, and every later step of the handler leaves the session locked
\* with vault and password null.
C19_LockDoesNotAbortSave ==
    [][\A t \in TaskIds :
          (state.locked /\ tasks[t].pc \in PersistPcs /\ tasks'[t] # tasks[t]) =>
              /\ state'.locked /\ state'.vault = Null /\ state'.password = Null
              /\ tasks[t].pc = "encrypt_await" =>
                    /\ hasLocal(localStorage')
                    /\ decryptOk(loadLocal(localStorage')[1], tasks[t].encPw)
                    /\ decrypt(loadLocal(localStorage')[1], tasks[t].encPw)
                          = tasks[t].json[1]
                    /\ tasks'[t].pc \in PersistPcs]_vars

\* a mutation returned true after a lock cut into its save: the session is
\* wiped, and the Local Store holds the vault as it was when lock() ran,
\* sealed under the password of that session
C19_Witness ==
    \E t \in TaskIds :
        /\ tasks[t].pc = "returned"
        /\ tasks[t].op = "createTable"
        /\ tasks[t].result = "true"
        /\ state.locked /\ state.vault = Null /\ state.password = Null
        /\ snap # Null
        /\ hasLocal(localStorage)
        /\ decryptOk(loadLocal(localStorage)[1], snap[1].password)
        /\ decrypt(loadLocal(localStorage)[1], snap[1].password)
              = JSONstringify(snap[1].vault)

\* C20: for every plaintext string P and password W,
\* Crypto.decrypt(Crypto.encrypt(P, W), W) returns exactly P.
C20_RoundTrip ==
    \A t \in TaskIds :
        tasks[t].pc = "rt_done" => tasks[t].plain = tasks[t].json

\* C21: an envelope sealed under W1 opens under W1 (verify answers true);
\* under any other password W2 verify answers false and decrypt fails.
C21_WrongPasswordRejected ==
    \A t \in TaskIds :
        tasks[t].pc = "wp_done" =>
            IF tasks[t].pw = tasks[t].encPw
            THEN tasks[t].result = "true"
            ELSE tasks[t].result = "false" /\ tasks[t].plain = Null

\* a Change Password call completed, from one password to another
Changed == tasks[2].pc = "returned" /\ tasks[2].result = "changed"
              /\ tasks[2].pw # tasks[2].newPw

\* C23: after a completed password change every unlock with the old password
\* returns {ok: false} and an unlock with the new one succeeds, also when the
\* push of the change failed and the remote answers at the next unlock.
C23_OldPasswordNeverUnlocks ==
    (Changed /\ tasks[1].pc = "returned" /\ tasks[1].op = "unlock") =>
        /\ tasks[1].pw = tasks[2].pw => tasks[1].result = "wrong"
        /\ tasks[1].pw = tasks[2].newPw => tasks[1].result = "ok"

\* no call of Storage.save is between its saveLocal and its return
NoSaveInFlight == \A t \in TaskIds : tasks[t].pc \in {"idle", "returned"}

\* a mutation whose save tried the remote has just returned
PushedSaveReturned ==
    \E t \in TaskIds :
        /\ tasks[t].pc = "returned"
        /\ tasks[t].op \in MutatorOps
        /\ tasks[t].push # "none"

\* C24: with a remote configured, no save in flight and the pending flag
\* false, the remote file is the Local Store envelope, however the pushes of
\* overlapping saves complete or fail.
C24_PendingFlagSound ==
    (/\ isConfigured(localStorage)
     /\ NoSaveInFlight
     /\ PushedSaveReturned
     /\ ~hasPending(localStorage))
        => remoteFile = localStorage.mv_vault

\* C25: Storage.load never changes the pending flag and never writes to the
\* remote store, also when it replaces the Local Store envelope by the remote
\* one or is left by an exception.
C25_LoadKeepsPendingAndRemote ==
    [][\A t \in TaskIds :
          (tasks[t].pc = "load_await" /\ tasks'[t].pc # "load_await") =>
              /\ hasPending(localStorage') = hasPending(localStorage)
              /\ remoteFile' = remoteFile]_vars

\* a load replaced a pending local envelope by the remote one; the flag stays
C25_Witness ==
    \E t \in TaskIds :
        /\ tasks[t].pc = "unlock_loaded" /\ tasks[t].pull = "ok"
        /\ hasPending(localStorage)
        /\ localStorage.mv_vault = remoteFile
        /\ snap # Null
        /\ decryptOk(loadLocal(localStorage)[1], snap[1].password)
        /\ decrypt(loadLocal(localStorage)[1], snap[1].password)
              # JSONstringify(snap[1].vault)

\* C26: the vault and the password are in memory exactly while the session
\* is unlocked, also when lock() runs while unlock, persistVault or
\* setupGitHub is suspended at an await.
C26_SecretsOnlyWhileUnlocked ==
    /\ state.locked => state.vault = Null /\ state.password = Null
    /\ ~state.locked => state.vault # Null /\ state.password # Null

\* C27: after any sequence of createTable, addColumn, renameColumn,
\* deleteColumn, addRow, updateCell, deleteRow and importCSV (into a new or an
\* existing table, with any CSV text) every row of every table has as many
\* cells as the table has columns.
C27_RowsMatchColumnsAllOps == state.vault # Null => RowsMatchColumns(state.vault[1])

\* no table of the vault has an empty columns list
HasColumns(v) == \A n \in DOMAIN v.tables : Len(v.tables[n].columns) >= 1

\* C28: after any sequence of createTable, deleteColumn, addColumn and
\* importCSV every table has at least one column; deleteColumn on a table
\* with exactly one column changes nothing and persists nothing.
C28_AtLeastOneColumn ==
    /\ [](state.vault # Null => HasColumns(state.vault[1]))
    /\ [][\A t \in TaskIds, n \in TableNames, i \in ColIndexInputs :
             (/\ DeleteColumn(t, n, i)
              /\ Len(state.vault[1].tables[n].columns) = 1)
                => /\ UNCHANGED <<state, localStorage, remoteFile>>
                   /\ tasks'[t].pc = "returned"]_vars

\* a deleteColumn returned without a save on a one-column table that an
\* import created
C28_Witness ==
    \E t \in TaskIds :
        /\ tasks[t].pc = "returned" /\ tasks[t].op = "deleteColumn"
        /\ state.vault # Null /\ hasTable(state.vault[1], "Logins")
        /\ state.vault[1].tables["Logins"].columns = <<"a">>

\* a table as the editor reads it: columns and rows
WellFormedTable(tbl) == DOMAIN tbl = {"columns", "rows"}

\* what a renameTable(oldName, newName) that goes on to return true did
Renamed(v, w, oldName, newName) ==
    /\ Cardinality(DOMAIN w.tables) = Cardinality(DOMAIN v.tables)
    /\ oldName \in DOMAIN v.tables
    /\ newName \in DOMAIN w.tables
    /\ w.tables[newName] = v.tables[oldName]
    /\ oldName \notin DOMAIN w.tables
    /\ \A n \in DOMAIN v.tables \ {oldName} :
          n \in DOMAIN w.tables /\ w.tables[n] = v.tables[n]
    /\ \A n \in DOMAIN w.tables : WellFormedTable(w.tables[n])

\* C29: for every oldName and newName, renameTable returns false and leaves
\* the vault unchanged, or goes on to return true with the table count
\* unchanged, newName holding the table formerly under oldName, oldName
\* absent, every other table untouched and every key holding a table.
C29_RenamePreservesContents ==
    [][\A t \in TaskIds, o \in EditorTableNames, input \in EditorNameInputs :
          (RenameTable(t, o, input) \/ RenameMissingTable(t, o, input)) =>
              IF tasks'[t].pc = "returned"
              THEN tasks'[t].result = "false" /\ UNCHANGED state
              ELSE Renamed(state.vault[1], state'.vault[1], o, Trim(input))]_vars

\* C30: the sync config is stored only if setupGitHub returns true: a call
\* that returned false or was left by an exception (connection test, pull or
\* decryption of the pulled envelope failed) leaves the config unset, as it
\* was when the call started.
C30_SetupAllOrNothing ==
    \A t \in TaskIds :
        (/\ tasks[t].pc = "returned"
         /\ tasks[t].op = "setupGitHub"
         /\ tasks[t].result # "true")
            => ~isConfigured(localStorage)

=============================================================================
